---- MODULE Spec2Model ----
(***************************************************************************)
(* A model of the job-execution and streaming engine of gradio_client      *)
(* (client/python/gradio_client/client.py): Client.send_data,              *)
(* Client.stream_messages, Endpoint.make_predict,                          *)
(* Endpoint.make_end_to_end_fn and the Job handle.                         *)
(*                                                                         *)
(* Threads: one worker per submitted job (the ThreadPoolExecutor task that *)
(* runs _inner), one stream task per executor.submit(open_stream), and the *)
(* caller's thread (status, cancel).  Each action is one step of one       *)
(* thread between two points where the interpreter may switch threads;     *)
(* the shared fields of Client are read and written without a lock, so     *)
(* every read and write of them is a step of its own.                      *)
(***************************************************************************)
EXTENDS Integers, Sequences, FiniteSets, TLC

VARIABLES
    protocol,                   \* Client.protocol (fixed by the app's config)
    stream_open,                \* Client.stream_open
    streaming_future,           \* Client.streaming_future: 0 is None, else a stream task
    pending_messages_per_event, \* Client.pending_messages_per_event: event id -> list
    pending_event_ids,          \* Client.pending_event_ids
    streams,                    \* the stream tasks, by the job whose send_data submitted them
    pc,                         \* each job's worker: its position in _inner / _predict / send_data
    helper,                     \* each job's Communicator
    future,                     \* each job's backing Future: exception and result once done
    server,                     \* the remote app: per job, what it has sent so far
    app_running,                \* the remote app is up (it has not sent server_stopped)
    caller,                     \* what the caller's status() calls have returned so far
    found,                      \* history: the task streaming_future named when the
                                \* worker found stream_open false
    call,                       \* a function called on its own: its arguments, and
                                \* what it returned once it has run
    session_hash,               \* Client.session_hash: the n-th uuid4 drawn
    heartbeat,                  \* the heartbeat thread, with the two events
                                \* _refresh_heartbeat and _kill_heartbeat
    callbacks,                  \* a submit with result_callbacks: the Future's
                                \* state and list of callbacks, and the calls made
    lock,                       \* each Communicator's lock: the thread that holds
                                \* it and the threads inside a `with` block on it
    executor                    \* Client.executor: the number of its pool threads

vars == << protocol, stream_open, streaming_future, pending_messages_per_event,
           pending_event_ids, streams, pc, helper, future, server,
           app_running, caller, found, call, session_hash, heartbeat, callbacks, lock, executor >>

(* Bounds of the model. *)
NJobs == 2          \* jobs submitted over the client's life
MaxGen == 1         \* process_generating messages the app sends per job
MaxCalls == 3       \* result() calls the caller makes on one job
MaxSlots == 3       \* output components of an endpoint
MaxSessions == 2    \* session identities drawn over the client's life
MaxInputs == 2      \* inputs of an endpoint

MaxConnections == 3 \* heartbeat connections opened
MaxLines == 3       \* lines received by the heartbeat
MaxDownloads == 2   \* files downloaded one after the other

MaxCallbacks == 3   \* result callbacks given to one submit
MaxDeps == 2        \* dependencies in the app's config

max_workers == 40   \* Client.__init__(max_workers=40)

Jobs == 1 .. NJobs

(* The protocols Endpoint.make_predict routes through send_data; sse_v1,   *)
(* sse_v2 and sse_v2.1 differ only in how a message's output is decoded,   *)
(* so sse_v1 stands for the three.                                         *)
Protocols == {"sse_v1", "sse_v3"}

None ==
    [msg |-> "None", event_id |-> 0, n |-> 0, output |-> << >>, error |-> "absent"]

ServerStopped ==
    [msg |-> "server_stopped", event_id |-> 0, n |-> 0, output |-> << >>,
     error |-> "absent"]

(* A job message of the app: its discriminator, its correlation id, its    *)
(* position in the job's message sequence, and its output data: one value, *)
(* tagged with the job that computed it.  Its output has no error field.   *)
JobMessage(kind, e, k, out) ==
    [msg |-> kind, event_id |-> e, n |-> k, output |-> << <<e, out>> >>,
     error |-> "absent"]

(* The process_completed message of a job whose handler raised: its output *)
(* has an error field, null or the app's message, and no data.             *)
ErrorMessage(e, k, err) ==
    [msg |-> "process_completed", event_id |-> e, n |-> k, output |-> << >>,
     error |-> err]

(* The app's side of a job: the status code of its answer to the submit    *)
(* POST (-1 before the POST, 0 when no answer came), whether it has queued *)
(* the job and under which session_hash of the POST (0: none), the         *)
(* messages it has sent, and how the job's handler ends ("absent": it      *)
(* returns; "null" or "msg": it raises, and that is the error field).      *)
AppJob(err) ==
    [status_code |-> -1, posted |-> FALSE, session_hash |-> 0, sent |-> 0,
     completed |-> FALSE, error |-> err]

(* A stream task: its position in stream_messages, the process_completed   *)
(* message in hand, the done-callbacks its thread has still to run,        *)
(* whether its last removal left the awaiting set empty, and whether it    *)
(* left its loop on a record that is no message (both history, read by the *)
(* properties only), and the session_hash parameter of its GET (0: the     *)
(* connection is not open yet).                                            *)
NoStream ==
    [st |-> "none", cur |-> None, cbs |-> 0, emptied |-> FALSE, failed |-> FALSE,
     session_hash |-> 0]

(* No function is called on its own. *)
NoCall == [fn |-> "none"]

(* The function called on its own has not run yet. *)
NotRun == [ret |-> "not run"]

(* The codes of a job's status. *)
Statuses ==
    {"STARTING", "JOINED_QUEUE", "PROCESSING", "ITERATING", "FINISHED", "CANCELLED"}

(* What a job's task can end with: "none" is a return. *)
Exceptions ==
    {"none", "QueueError", "HTTPStatusError", "ConnectError", "CancelledError",
     "ServerStopped", "AppError(generic)", "AppError(message)"}

(* Job.communicator of a job submitted through a legacy endpoint. *)
NoCommunicator == [communicator |-> "None"]

(* The body of the caller's last cancel request: none sent yet. *)
NoPost == [session_hash |-> 0, event_id |-> -1]

(* What result() gave the caller: nothing yet. *)
NoResult == [raised |-> "none", value |-> << "no call" >>]

(* The caller of a job before it has called anything on it: whether it has *)
(* called cancel(), what its status() and result() calls returned last,    *)
(* what its first result() call returned, what result() returned last      *)
(* before and last after a cancel() of the finished job, and its           *)
(* iteration over the Job: Job._counter, what the iteration has yielded    *)
(* and whether it has ended with StopIteration; and the body of the last   *)
(* cancel request its cancel() posted.                                     *)
NoCaller ==
    [cancelled |-> FALSE, last_status |-> "none", seen_finished |-> FALSE,
     result_calls |-> 0, first_result |-> NoResult, last_result |-> NoResult,
     at_cancel |-> NoResult, after_cancel |-> NoResult,
     counter |-> 0, yielded |-> << >>, stopped |-> FALSE,
     cancel_post |-> NoPost,
     aiter |-> "get", updates |-> << >>, timeouts |-> 0]

(* The heartbeat thread as Client.__init__ starts it: about to open its    *)
(* first connection, both events clear.  session_hash is the session of   *)
(* the url of its connection (0: none); connections and lines count what  *)
(* it has opened and received.                                             *)
NoHeartbeat ==
    [pc |-> "connect", _refresh_heartbeat |-> FALSE, _kill_heartbeat |-> FALSE,
     session_hash |-> 0, connections |-> 0, lines |-> 0]

(* No submit with result_callbacks was made yet.  n is the number of       *)
(* callbacks given and added how many of them submit() has registered;     *)
(* state and result are the Future's (result: what the job ends with), and *)
(* _done_callbacks its list; invoking is the position of the finishing     *)
(* thread in that list; invoked are the calls made to the callbacks.       *)
NoCallbacks ==
    [n |-> 0, added |-> 0, state |-> "PENDING", result |-> "none",
     _done_callbacks |-> << >>, invoking |-> 0, invoked |-> << >>]

NoHelper ==
    [should_cancel |-> FALSE, event_id |-> 0, outputs |-> << >>,
     latest_status |-> "STARTING", updates |-> << >>]

ClientInit ==
    /\ protocol \in Protocols
    /\ stream_open = FALSE
    /\ streaming_future = 0
    /\ pending_messages_per_event = << >>
    /\ pending_event_ids = {}
    /\ streams = [s \in Jobs |-> NoStream]
    /\ pc = [j \in Jobs |-> "init"]
    /\ helper = [j \in Jobs |-> NoHelper]
    /\ future = [j \in Jobs |-> [exception |-> "none", result |-> << >>]]
    /\ app_running = TRUE
    /\ found = [j \in Jobs |-> 0]
    /\ session_hash = 1
    /\ heartbeat = NoHeartbeat
    /\ callbacks = NoCallbacks

(* No caller is looked at: the jobs run on their own. *)
Init ==
    /\ ClientInit
    /\ caller = << >>
    /\ lock = << >>
    /\ executor = max_workers
    /\ server = [j \in Jobs |-> AppJob("absent")]
    /\ call = NoCall

(***************************************************************************)
(* The worker pool: Client.executor, a ThreadPoolExecutor(max_workers).    *)
(***************************************************************************)
WorkerRunning(j) == pc[j] \notin {"init", "queued", "done"}

StreamRunning(s) ==
    \/ streams[s].st \in {"read", "got", "appended", "check", "exiting", "cb_loop"}
    \/ streams[s].st = "done" /\ streams[s].cbs > 0

Busy ==
    Cardinality({j \in Jobs : WorkerRunning(j)})
        + Cardinality({s \in Jobs : StreamRunning(s)})

(* Future.done() of a stream task. *)
StreamDone(s) == streams[s].st \in {"done", "cb_loop"}

(* A stream task that is scheduled or running: submitted and not done. *)
InFlight(s) ==
    streams[s].st \in {"queued", "read", "got", "appended", "check", "exiting"}

(***************************************************************************)
(* Client.submit: the Communicator is created, _inner is handed to the     *)
(* executor and the Job is returned.                                       *)
(***************************************************************************)
Submit(j) ==
    /\ pc[j] = "init"
    /\ pc' = [pc EXCEPT ![j] = "queued"]
    /\ helper' = [helper EXCEPT ![j] = NoHelper]
    /\ UNCHANGED << protocol, stream_open, streaming_future,
                    pending_messages_per_event, pending_event_ids, streams,
                    future, server, app_running, caller, found, call, session_hash, heartbeat, callbacks, lock, executor >>

(* The end of the job's task: the Future is set and the pool thread freed. *)
Finish(j, exc, res) ==
    /\ pc' = [pc EXCEPT ![j] = "done"]
    /\ future' = [future EXCEPT ![j] = [exception |-> exc, result |-> res]]

(* send_data with 503 left to raise_for_status. *)
SubmitOutcome_Generic(status_code) ==
    CASE status_code = 200 -> "none"
      [] status_code = 0 -> "ConnectError"
      [] OTHER -> "HTTPStatusError"

(* send_data: what the submit POST raises ("none": it returns).  httpx.post *)
(* raises when no answer comes; `if req.status_code == 503: raise          *)
(* QueueError(...)`; `req.raise_for_status()`.                             *)
SubmitOutcome(status_code) ==
    CASE status_code = 200 -> "none"
      [] status_code = 0 -> "ConnectError"
      [] status_code = 503 -> "QueueError"
      [] OTHER -> "HTTPStatusError"

(***************************************************************************)
(* A pool thread picks the job's task up and _inner runs up to the submit  *)
(* POST of Client.send_data: 503 raises QueueError, another failing status *)
(* raises from raise_for_status, and otherwise the app has queued the job  *)
(* and answered with its event_id.  An app that has stopped answers        *)
(* nothing (status 0 here): httpx.post raises a transport error.           *)
(***************************************************************************)
Post(j) ==
    /\ pc[j] = "queued"
    /\ Busy < executor
    /\ \E status_code \in IF app_running THEN {200, 503, 500} ELSE {0} :
          /\ server' = [server EXCEPT
                            ![j].status_code = status_code,
                            ![j].posted = (status_code = 200),
                            ![j].session_hash = IF status_code = 200
                                                THEN session_hash ELSE @]
          /\ IF SubmitOutcome(status_code) = "none"
             THEN /\ pc' = [pc EXCEPT ![j] = "check_open"]
                  /\ UNCHANGED future
             ELSE Finish(j, SubmitOutcome(status_code), << >>)
    /\ UNCHANGED << protocol, stream_open, streaming_future,
                    pending_messages_per_event, pending_event_ids, streams,
                    helper, app_running, caller, found, call, session_hash, heartbeat, callbacks, lock, executor >>

(* send_data: `if not self.stream_open:` *)
CheckOpen(j) ==
    /\ pc[j] = "check_open"
    /\ pc' = [pc EXCEPT ![j] = IF ~stream_open THEN "set_open" ELSE "add_id"]
    /\ found' = [found EXCEPT ![j] = IF ~stream_open THEN streaming_future ELSE 0]
    /\ UNCHANGED << protocol, stream_open, streaming_future,
                    pending_messages_per_event, pending_event_ids, streams,
                    helper, future, server, app_running, caller, call, session_hash, heartbeat, callbacks, lock, executor >>

(* send_data: `self.stream_open = True` *)
SetOpen(j) ==
    /\ pc[j] = "set_open"
    /\ stream_open' = TRUE
    /\ pc' = [pc EXCEPT ![j] = "check_future"]
    /\ UNCHANGED << protocol, streaming_future, pending_messages_per_event,
                    pending_event_ids, streams, helper, future, server,
                    app_running, caller, found, call, session_hash, heartbeat, callbacks, lock, executor >>

(* send_data: `if self.streaming_future is None or self.streaming_future.done():` *)
NeedsNewStream == streaming_future = 0 \/ StreamDone(streaming_future)

CheckFuture(j) ==
    /\ pc[j] = "check_future"
    /\ pc' = [pc EXCEPT ![j] = IF NeedsNewStream THEN "submit_stream" ELSE "add_id"]
    /\ found' = [found EXCEPT ![j] = 0]
    /\ UNCHANGED << protocol, stream_open, streaming_future,
                    pending_messages_per_event, pending_event_ids, streams,
                    helper, future, server, app_running, caller, call, session_hash, heartbeat, callbacks, lock, executor >>

(* send_data: `self.streaming_future = self.executor.submit(open_stream)` *)
SubmitStream(j) ==
    /\ pc[j] = "submit_stream"
    /\ streams' = [streams EXCEPT ![j] = [NoStream EXCEPT !.st = "queued"]]
    /\ streaming_future' = j
    /\ pc' = [pc EXCEPT ![j] = "add_cb"]
    /\ UNCHANGED << protocol, stream_open, pending_messages_per_event,
                    pending_event_ids, helper, future, server, app_running, caller, found, call, session_hash, heartbeat, callbacks, lock, executor >>

(***************************************************************************)
(* send_data: `self.streaming_future.add_done_callback(close_stream)`.     *)
(* The field is read again, so the callback goes to whichever task it      *)
(* names now.  A task that is already done runs the callback at once, in   *)
(* the calling thread; otherwise the task's thread runs it when it ends.   *)
(***************************************************************************)
AddDoneCallback(j) ==
    /\ pc[j] = "add_cb"
    /\ IF StreamDone(streaming_future)
       THEN /\ pc' = [pc EXCEPT ![j] = "cb_flag"]
            /\ UNCHANGED streams
       ELSE /\ pc' = [pc EXCEPT ![j] = "add_id"]
            /\ streams' = [streams EXCEPT ![streaming_future].cbs = @ + 1]
    /\ UNCHANGED << protocol, stream_open, streaming_future,
                    pending_messages_per_event, pending_event_ids, helper,
                    future, server, app_running, caller, found, call, session_hash, heartbeat, callbacks, lock, executor >>

(* close_stream: `for _, pending_messages in ...items(): pending_messages.append(None)` *)
AppendSentinels(inboxes) ==
    [e \in DOMAIN inboxes |-> Append(inboxes[e], None)]

(* close_stream run by the worker: `self.stream_open = False` *)
WorkerCloseStreamFlag(j) ==
    /\ pc[j] = "cb_flag"
    /\ stream_open' = FALSE
    /\ pc' = [pc EXCEPT ![j] = "cb_loop"]
    /\ UNCHANGED << protocol, streaming_future, pending_messages_per_event,
                    pending_event_ids, streams, helper, future, server,
                    app_running, caller, found, call, session_hash, heartbeat, callbacks, lock, executor >>

(* close_stream run by the worker: the loop over the registry *)
WorkerCloseStreamLoop(j) ==
    /\ pc[j] = "cb_loop"
    /\ pending_messages_per_event' = AppendSentinels(pending_messages_per_event)
    /\ pc' = [pc EXCEPT ![j] = "add_id"]
    /\ UNCHANGED << protocol, stream_open, streaming_future, pending_event_ids,
                    streams, helper, future, server, app_running, caller, found, call, session_hash, heartbeat, callbacks, lock, executor >>

(* make_predict: `self.client.pending_event_ids.add(event_id)` *)
AddEventId(j) ==
    /\ pc[j] = "add_id"
    /\ pending_event_ids' = pending_event_ids \cup {j}
    /\ pc' = [pc EXCEPT ![j] = "reset_inbox"]
    /\ UNCHANGED << protocol, stream_open, streaming_future,
                    pending_messages_per_event, streams, helper, future,
                    server, app_running, caller, found, call, session_hash, heartbeat, callbacks, lock, executor >>

(* make_predict: `self.client.pending_messages_per_event[event_id] = []` *)
RegisterInbox(inboxes, e) == (e :> << >>) @@ inboxes

(* make_predict: the registry entry, then `helper.event_id = event_id` *)
ResetInbox(j) ==
    /\ pc[j] = "reset_inbox"
    /\ pending_messages_per_event' = RegisterInbox(pending_messages_per_event, j)
    /\ helper' = [helper EXCEPT ![j].event_id = j]
    /\ pc' = [pc EXCEPT ![j] = "consume"]
    /\ UNCHANGED << protocol, stream_open, streaming_future, pending_event_ids,
                    streams, future, server, app_running, caller, found, call, session_hash, heartbeat, callbacks, lock, executor >>

(***************************************************************************)
(* Client.stream_messages, run by the executor as open_stream.             *)
(***************************************************************************)

(* The task starts and the GET of the event stream is open, with the       *)
(* client's session_hash of the moment as its parameter.                   *)
StreamStart(s) ==
    /\ streams[s].st = "queued"
    /\ Busy < executor
    /\ streams' = [streams EXCEPT ![s].st = "read",
                                  ![s].session_hash = session_hash]
    /\ UNCHANGED << protocol, stream_open, streaming_future,
                    pending_messages_per_event, pending_event_ids, pc, helper,
                    future, server, app_running, caller, found, call, session_hash, heartbeat, callbacks, lock, executor >>

(* stream_messages leaves its loop: by return or by an exception. *)
StreamExit(s) ==
    streams' = [streams EXCEPT ![s].st = "exiting", ![s].cur = None,
                               ![s].emptied = FALSE]

(* `if resp["msg"] == ServerMessage.heartbeat: continue` *)
StreamHeartbeat(s) ==
    /\ streams[s].st = "read"
    /\ UNCHANGED vars

(* The server_stopped branch: the message goes to every list of the        *)
(* registry, then `return`.  The app sends it as its last message.         *)
FanOut(inboxes, resp) ==
    [e \in DOMAIN inboxes |-> Append(inboxes[e], resp)]

StreamServerStopped(s) ==
    /\ streams[s].st = "read"
    /\ app_running
    /\ app_running' = FALSE
    /\ pending_messages_per_event' = FanOut(pending_messages_per_event, ServerStopped)
    /\ StreamExit(s)
    /\ UNCHANGED << protocol, stream_open, streaming_future, pending_event_ids,
                    pc, helper, future, server, caller, found, call, session_hash, heartbeat, callbacks, lock, executor >>

(* The close_stream branch: `self.stream_open = False; return`.  The app   *)
(* sends close_stream under sse_v3 only.                                   *)
StreamCloseStream(s) ==
    /\ streams[s].st = "read"
    /\ app_running
    /\ protocol = "sse_v3"
    /\ stream_open' = FALSE
    /\ StreamExit(s)
    /\ UNCHANGED << protocol, streaming_future, pending_messages_per_event,
                    pending_event_ids, pc, helper, future, server, app_running, caller, found, call, session_hash, heartbeat, callbacks, lock, executor >>

(* A record that is not data:-prefixed: `raise ValueError(f"Unexpected SSE *)
(* line: '{line}'")`, which the except clause prints and re-raises.  The   *)
(* task is over.                                                           *)
StreamProtocolError(s) ==
    /\ streams[s].st = "read"
    /\ app_running
    /\ streams' = [streams EXCEPT ![s].st = "exiting", ![s].cur = None,
                                  ![s].emptied = FALSE, ![s].failed = TRUE]
    /\ UNCHANGED << protocol, stream_open, streaming_future,
                    pending_messages_per_event, pending_event_ids, pc, helper,
                    future, server, app_running, caller, found, call,
                    session_hash, heartbeat, callbacks, lock, executor >>

(* A transport error while reading: the except clause returns or           *)
(* re-raises.                                                              *)
StreamError(s) ==
    /\ streams[s].st = "read"
    /\ StreamExit(s)
    /\ UNCHANGED << protocol, stream_open, streaming_future,
                    pending_messages_per_event, pending_event_ids, pc, helper,
                    future, server, app_running, caller, found, call, session_hash, heartbeat, callbacks, lock, executor >>

(* Route with the append done the way the server_stopped branch does it:   *)
(* to every list of the registry.                                          *)
Route_Broadcast(inboxes, resp) ==
    LET e == resp.event_id
        all == (e :> << >>) @@ inboxes
    IN  [k \in DOMAIN all |-> Append(all[k], resp)]

(* `event_id = resp["event_id"]`; the list is created when the key is      *)
(* missing; `self.pending_messages_per_event[event_id].append(resp)`       *)
Route(inboxes, resp) ==
    LET e == resp.event_id
        old == IF e \in DOMAIN inboxes THEN inboxes[e] ELSE << >>
    IN  (e :> Append(old, resp)) @@ inboxes

(* The app sends the next message of a job it has queued: some             *)
(* process_generating messages with the outputs 1, 2, ... and then one     *)
(* process_completed, which carries the last output again (the only one    *)
(* when the job generated nothing).                                        *)
NextMessages(j) ==
    IF ~server[j].posted \/ server[j].completed THEN {}
    ELSE LET k == server[j].sent + 1
         IN  {IF server[j].error = "absent"
              THEN JobMessage("process_completed", j, k,
                              IF k = 1 THEN 1 ELSE k - 1)
              ELSE ErrorMessage(j, k, server[j].error)}
             \cup (IF server[j].sent < MaxGen
                   THEN {JobMessage("process_generating", j, k, k)}
                   ELSE {})

(* One record of a job is read from the connection and decoded:           *)
(* `resp = json.loads(line[5:])`.  The app hands each message of the       *)
(* session to one of the connections reading for it.                       *)
StreamRead(s) ==
    /\ streams[s].st = "read"
    /\ app_running
    /\ \E j \in Jobs : \E resp \in NextMessages(j) :
          /\ server' = [server EXCEPT
                            ![j].sent = IF resp.msg = "process_completed"
                                        THEN 0 ELSE @ + 1,
                            ![j].completed = (resp.msg = "process_completed")]
          /\ streams' = [streams EXCEPT ![s].cur = resp, ![s].st = "got"]
    /\ UNCHANGED << protocol, stream_open, streaming_future,
                    pending_messages_per_event, pending_event_ids, pc, helper,
                    future, app_running, caller, found, call, session_hash, heartbeat, callbacks, lock, executor >>

(* The record read is appended to the list of its event_id. *)
StreamAppend(s) ==
    /\ streams[s].st = "got"
    /\ pending_messages_per_event' =
           Route(pending_messages_per_event, streams[s].cur)
    /\ streams' = [streams EXCEPT
                      ![s].cur = IF @.msg = "process_completed" THEN @ ELSE None,
                      ![s].st = IF streams[s].cur.msg = "process_completed"
                                THEN "appended" ELSE "check"]
    /\ UNCHANGED << protocol, stream_open, streaming_future, pending_event_ids,
                    pc, helper, future, server, app_running, caller, found, call, session_hash, heartbeat, callbacks, lock, executor >>

(* `if resp["msg"] == ServerMessage.process_completed:                     *)
(*      self.pending_event_ids.remove(event_id)`: set.remove raises        *)
(* KeyError for an id that is not in the set.                              *)
StreamRemove(s) ==
    /\ streams[s].st = "appended"
    /\ IF streams[s].cur.event_id \in pending_event_ids
       THEN /\ pending_event_ids' = pending_event_ids \ {streams[s].cur.event_id}
            /\ streams' = [streams EXCEPT
                              ![s].st = "check", ![s].cur = None,
                              ![s].emptied =
                                  (pending_event_ids \ {streams[s].cur.event_id} = {})]
       ELSE /\ StreamExit(s)
            /\ UNCHANGED pending_event_ids
    /\ UNCHANGED << protocol, stream_open, streaming_future,
                    pending_messages_per_event, pc, helper, future, server,
                    app_running, caller, found, call, session_hash, heartbeat, callbacks, lock, executor >>

(* The test with the protocols exchanged. *)
Drained_Inverted == Cardinality(pending_event_ids) = 0 /\ protocol = "sse_v3"

(* The test without its protocol clause. *)
Drained_AnyProtocol == Cardinality(pending_event_ids) = 0

(* `if len(self.pending_event_ids) == 0 and protocol != "sse_v3":` *)
Drained == Cardinality(pending_event_ids) = 0 /\ protocol # "sse_v3"

(* ... `self.stream_open = False; return` *)
StreamCheck(s) ==
    /\ streams[s].st = "check"
    /\ IF Drained
       THEN /\ stream_open' = FALSE
            /\ StreamExit(s)
       ELSE /\ streams' = [streams EXCEPT ![s].st = "read", ![s].emptied = FALSE]
            /\ UNCHANGED stream_open
    /\ UNCHANGED << protocol, streaming_future, pending_messages_per_event,
                    pending_event_ids, pc, helper, future, server, app_running, caller, found, call, session_hash, heartbeat, callbacks, lock, executor >>

(* The with blocks are left and the task's Future is set: done() is true. *)
StreamFinish(s) ==
    /\ streams[s].st = "exiting"
    /\ streams' = [streams EXCEPT ![s].st = "done"]
    /\ UNCHANGED << protocol, stream_open, streaming_future,
                    pending_messages_per_event, pending_event_ids, pc, helper,
                    future, server, app_running, caller, found, call, session_hash, heartbeat, callbacks, lock, executor >>

(* close_stream run by the task's thread: `self.stream_open = False` *)
StreamCloseStreamFlag(s) ==
    /\ streams[s].st = "done"
    /\ streams[s].cbs > 0
    /\ stream_open' = FALSE
    /\ streams' = [streams EXCEPT ![s].st = "cb_loop"]
    /\ UNCHANGED << protocol, streaming_future, pending_messages_per_event,
                    pending_event_ids, pc, helper, future, server, app_running, caller, found, call, session_hash, heartbeat, callbacks, lock, executor >>

(* close_stream run by the task's thread: the loop over the registry *)
StreamCloseStreamLoop(s) ==
    /\ streams[s].st = "cb_loop"
    /\ pending_messages_per_event' = AppendSentinels(pending_messages_per_event)
    /\ streams' = [streams EXCEPT ![s].st = "done", ![s].cbs = @ - 1]
    /\ UNCHANGED << protocol, stream_open, streaming_future, pending_event_ids,
                    pc, helper, future, server, app_running, caller, found, call, session_hash, heartbeat, callbacks, lock, executor >>

(***************************************************************************)
(* The worker waiting for its messages (_sse_fn_v1plus, which hands the    *)
(* job's list of the registry to utils.get_pred_from_sse_v1plus), and the  *)
(* rest of _inner.                                                         *)
(***************************************************************************)

(* The Communicator after one job message: an output is recorded for a     *)
(* step that is not the last, the status is overwritten, and an update     *)
(* with the new status is put on the Communicator's queue of updates.      *)
Record(h, resp) ==
    IF resp.msg = "process_completed"
    THEN [h EXCEPT !.latest_status = "FINISHED",
                   !.updates = Append(@, "FINISHED")]
    ELSE [h EXCEPT !.latest_status = "ITERATING",
                   !.outputs = Append(@, resp.output[1]),
                   !.updates = Append(@, "ITERATING")]

(* The error raised with the app's message whatever the error field holds. *)
AppErrorOf_Message(error) == "AppError(message)"

(* _predict after _sse_fn_v1plus: `if "error" in result:` raises AppError,  *)
(* with the generic message when `result["error"] is None`.                *)
AppErrorOf(error) ==
    IF error = "null" THEN "AppError(generic)" ELSE "AppError(message)"

(* The head of the job's list is taken: the sentinel and server_stopped    *)
(* end the job with an exception, process_completed ends the wait.         *)
ConsumeMessage(j) ==
    /\ pc[j] = "consume"
    /\ j \in DOMAIN pending_messages_per_event
    /\ pending_messages_per_event[j] # << >>
    /\ LET resp == Head(pending_messages_per_event[j])
       IN  /\ pending_messages_per_event' =
                  [pending_messages_per_event EXCEPT ![j] = Tail(@)]
           /\ CASE resp = None ->
                      /\ Finish(j, "CancelledError", << >>)
                      /\ UNCHANGED helper
                [] resp = ServerStopped ->
                      /\ Finish(j, "ServerStopped", << >>)
                      /\ UNCHANGED helper
                [] resp.msg = "process_completed" /\ resp.error # "absent" ->
                      /\ helper' = [helper EXCEPT ![j] = Record(@, resp)]
                      /\ Finish(j, AppErrorOf(resp.error), << >>)
                [] resp.msg = "process_completed" /\ resp.error = "absent" ->
                      /\ helper' = [helper EXCEPT ![j] = Record(@, resp)]
                      /\ pc' = [pc EXCEPT ![j] = "finalize"]
                      /\ future' = [future EXCEPT ![j].result = resp.output]
                [] OTHER ->
                      /\ helper' = [helper EXCEPT ![j] = Record(@, resp)]
                      /\ UNCHANGED << pc, future >>
    /\ UNCHANGED << protocol, stream_open, streaming_future, pending_event_ids,
                    streams, server, app_running, caller, found, call, session_hash, heartbeat, callbacks, lock, executor >>

(* The waiting worker sees the Communicator's cancellation flag. *)
ConsumeCancel(j) ==
    /\ pc[j] = "consume"
    /\ helper[j].should_cancel
    /\ Finish(j, "CancelledError", << >>)
    /\ UNCHANGED << protocol, stream_open, streaming_future,
                    pending_messages_per_event, pending_event_ids, streams,
                    helper, server, app_running, caller, found, call, session_hash, heartbeat, callbacks, lock, executor >>

(* _inner appending the final output whatever the list holds. *)
AppendFinal_Always(outputs, predictions) == Append(outputs, predictions)

(* _inner after _predict: process_predictions, then under the lock         *)
(* `if not helper.job.outputs: helper.job.outputs.append(predictions)`     *)
AppendFinal(outputs, predictions) ==
    IF outputs = << >> THEN << predictions >> ELSE outputs

Finalize(j) ==
    /\ pc[j] = "finalize"
    /\ LET predictions == future[j].result[1]
       IN  /\ helper' = [helper EXCEPT
                            ![j].outputs = AppendFinal(@, predictions)]
           /\ Finish(j, "none", << predictions >>)
    /\ UNCHANGED << protocol, stream_open, streaming_future,
                    pending_messages_per_event, pending_event_ids, streams,
                    server, app_running, caller, found, call, session_hash, heartbeat, callbacks, lock, executor >>

(***************************************************************************)
(* The Job handle, in the caller's thread.                                 *)
(***************************************************************************)

(* Future.done() of the job's backing computation. *)
Done(j) == pc[j] = "done"

(* Job.status with the test of done() put before the test of the flag. *)
Status_DoneFirst(j) ==
    IF Done(j)
    THEN [code |-> "FINISHED",
          success |-> IF future[j].exception = "none" THEN "True" ELSE "False"]
    ELSE IF helper[j].should_cancel
         THEN [code |-> "CANCELLED", success |-> "False"]
         ELSE [code |-> helper[j].latest_status, success |-> "None"]

(* Job.status with the test of done() put before the test of the flag,    *)
(* as a function of the Job's fields.                                      *)
StatusUpdateOf_DoneFirst(communicator, done, exception) ==
    IF done
    THEN [code |-> "FINISHED",
          success |-> IF exception = "none" THEN "True" ELSE "False"]
    ELSE IF communicator = NoCommunicator
         THEN [code |-> "PROCESSING", success |-> "None"]
         ELSE IF communicator.should_cancel
              THEN [code |-> "CANCELLED", success |-> "False"]
              ELSE [code |-> communicator.latest_status, success |-> "None"]

(* Job.status as a function of the Job's fields: the Communicator (or      *)
(* None), Future.done() and the Future's exception.  The code and the      *)
(* success flag of the StatusUpdate returned.                              *)
StatusUpdateOf(communicator, done, exception) ==
    LET cancelled == IF communicator # NoCommunicator
                     THEN communicator.should_cancel ELSE FALSE
    IN  IF cancelled
        THEN [code |-> "CANCELLED", success |-> "False"]
        ELSE IF done
             THEN [code |-> "FINISHED",
                   success |-> IF exception = "none" THEN "True" ELSE "False"]
             ELSE IF communicator = NoCommunicator
                  THEN [code |-> "PROCESSING", success |-> "None"]
                  ELSE [code |-> communicator.latest_status, success |-> "None"]

(* Job.status of a job of the model. *)
Status(j) == StatusUpdateOf(helper[j], Done(j), future[j].exception)

(* A call of job.status(); the caller keeps what it returned. *)
StatusCall(j) ==
    /\ pc[j] # "init"
    /\ caller' = [caller EXCEPT
                     ![j].last_status = Status(j).code,
                     ![j].seen_finished = @ \/ Status(j).code = "FINISHED"]
    /\ UNCHANGED << protocol, stream_open, streaming_future,
                    pending_messages_per_event, pending_event_ids, streams,
                    pc, helper, future, server, app_running, found, call, session_hash, heartbeat, callbacks, lock, executor >>

(* make_cancel for an app above 4.29.0: post_data, evaluated when cancel()  *)
(* runs, reads client.session_hash and helper.event_id (0 is None).        *)
post_data(j) ==
    [session_hash |-> session_hash, event_id |-> helper[j].event_id]

(* Job.cancel with a Communicator, on an app above 4.29.0: under the lock, *)
(* the flag is set and the cancel request is posted; True is returned.     *)
Cancel(j) ==
    /\ pc[j] # "init"
    /\ helper' = [helper EXCEPT ![j].should_cancel = TRUE]
    /\ caller' = [caller EXCEPT
                     ![j].cancelled = TRUE,
                     ![j].at_cancel = IF Done(j) THEN caller[j].last_result ELSE @,
                     ![j].after_cancel = IF Done(j) THEN NoResult ELSE @,
                     ![j].cancel_post = post_data(j)]
    /\ UNCHANGED << protocol, stream_open, streaming_future,
                    pending_messages_per_event, pending_event_ids, streams,
                    pc, future, server, app_running, found, call, session_hash, heartbeat, callbacks, lock, executor >>

(* reset_session changing the session identity without a word to the      *)
(* heartbeat.                                                              *)
ResetSession_Silent ==
    /\ session_hash < MaxSessions
    /\ session_hash' = session_hash + 1
    /\ UNCHANGED << protocol, stream_open, streaming_future,
                    pending_messages_per_event, pending_event_ids, streams,
                    pc, helper, future, server, app_running, caller, found,
                    call, heartbeat, callbacks, lock, executor >>

(* Client.reset_session: a fresh uuid4 becomes the session_hash, and the   *)
(* heartbeat is asked to reconnect under it.                               *)
ResetSession ==
    /\ session_hash < MaxSessions
    /\ session_hash' = session_hash + 1
    /\ heartbeat' = [heartbeat EXCEPT !._refresh_heartbeat = TRUE]
    /\ UNCHANGED << protocol, stream_open, streaming_future,
                    pending_messages_per_event, pending_event_ids, streams,
                    pc, helper, future, server, app_running, caller, found,
                    call, callbacks, lock, executor >>

(* Job.result with the Communicator's cancellation flag looked at first. *)
Result_CancelAware(j) ==
    IF helper[j].should_cancel
    THEN [raised |-> "CancelledError", value |-> << >>]
    ELSE IF future[j].exception # "none"
         THEN [raised |-> future[j].exception, value |-> << >>]
         ELSE [raised |-> "none", value |-> future[j].result]

(* Job.result refusing the outcome once a call has timed out. *)
Result_TimedOut(j) ==
    IF caller[j].timeouts > 0
    THEN [raised |-> "TimeoutError", value |-> << >>]
    ELSE IF future[j].exception # "none"
         THEN [raised |-> future[j].exception, value |-> << >>]
         ELSE [raised |-> "none", value |-> future[j].result]

(* Job.result handing the outcome out once only. *)
Result_Once(j) ==
    IF caller[j].result_calls > 0
    THEN [raised |-> "InvalidStateError", value |-> << >>]
    ELSE IF future[j].exception # "none"
         THEN [raised |-> future[j].exception, value |-> << >>]
         ELSE [raised |-> "none", value |-> future[j].result]

(* Job.result once the backing Future is done: Future.result re-raises the *)
(* exception the task ended with, or returns what it returned.             *)
Result(j) ==
    IF future[j].exception # "none"
    THEN [raised |-> future[j].exception, value |-> << >>]
    ELSE [raised |-> "none", value |-> future[j].result]

(* Job.outputs of a job with a Communicator: under the lock, the           *)
(* Communicator's output list.                                             *)
Outputs(j) == helper[j].outputs

(* A call of job.result() on a job whose backing computation is done; the  *)
(* caller keeps what it returned or raised.                                *)
ResultCall(j) ==
    /\ Done(j)
    /\ caller[j].result_calls < MaxCalls
    /\ caller' = [caller EXCEPT
                     ![j].result_calls = @ + 1,
                     ![j].first_result = IF caller[j].result_calls = 0
                                         THEN Result(j) ELSE @,
                     ![j].last_result = Result(j),
                     ![j].after_cancel = IF caller[j].cancelled
                                         THEN Result(j) ELSE @]
    /\ UNCHANGED << protocol, stream_open, streaming_future,
                    pending_messages_per_event, pending_event_ids, streams,
                    pc, helper, future, server, app_running, found, call, session_hash, heartbeat, callbacks, lock, executor >>

(***************************************************************************)
(* Job.__next__, called by the caller's for loop until it raises           *)
(* StopIteration.  One pass of its loop under the Communicator's lock:     *)
(* the entry at _counter is returned when there is one; else StopIteration *)
(* is raised when the Communicator's latest status is FINISHED; else the   *)
(* pass sleeps and the loop goes round.                                    *)
(***************************************************************************)
NextCall(j) ==
    /\ pc[j] # "init"
    /\ ~caller[j].stopped
    /\ IF Len(helper[j].outputs) >= caller[j].counter + 1
       THEN caller' = [caller EXCEPT
                          ![j].yielded =
                              Append(@, helper[j].outputs[caller[j].counter + 1]),
                          ![j].counter = @ + 1]
       ELSE /\ helper[j].latest_status = "FINISHED"
            /\ caller[j].counter >= Len(helper[j].outputs)
            /\ caller' = [caller EXCEPT ![j].stopped = TRUE]
    /\ UNCHANGED << protocol, stream_open, streaming_future,
                    pending_messages_per_event, pending_event_ids, streams,
                    pc, helper, future, server, app_running, found, call, session_hash, heartbeat, callbacks, lock, executor >>

(***************************************************************************)
(* Job.__aiter__, driven by the caller's `async for`.  aiter is where the  *)
(* generator stands: "get" at `await asyncio.wait_for(get, timeout=0.5)`,  *)
(* "timeout" in the except branch before `self.done()` is read, "return"   *)
(* once it has returned.  The updates it has yielded are kept in order.    *)
(***************************************************************************)

CallerUnchanged ==
    UNCHANGED << protocol, stream_open, streaming_future,
                 pending_messages_per_event, pending_event_ids, streams,
                 pc, future, server, app_running, found, call, session_hash,
                 heartbeat, callbacks, lock, executor >>

(* The get completes within the timeout: the update is yielded. *)
AiterYield(j) ==
    /\ pc[j] # "init"
    /\ caller[j].aiter = "get"
    /\ helper[j].updates # << >>
    /\ caller' = [caller EXCEPT ![j].updates = Append(@, Head(helper[j].updates))]
    /\ helper' = [helper EXCEPT ![j].updates = Tail(@)]
    /\ CallerUnchanged

(* Nothing was put on the queue for half a second: asyncio.TimeoutError. *)
AiterTimeout(j) ==
    /\ pc[j] # "init"
    /\ caller[j].aiter = "get"
    /\ helper[j].updates = << >>
    /\ caller' = [caller EXCEPT ![j].aiter = "timeout"]
    /\ UNCHANGED helper
    /\ CallerUnchanged

(* `if self.done(): return`, else `continue` *)
AiterDone(j) ==
    /\ caller[j].aiter = "timeout"
    /\ caller' = [caller EXCEPT ![j].aiter = IF Done(j) THEN "return" ELSE "get"]
    /\ UNCHANGED helper
    /\ CallerUnchanged

(* A call of job.result(timeout) on a job whose backing computation is not *)
(* done when the timeout is over: Future.result stops waiting and raises   *)
(* TimeoutError.                                                           *)
ResultTimeout(j) ==
    /\ pc[j] # "init"
    /\ ~Done(j)
    /\ caller[j].timeouts < MaxCalls
    /\ caller' = [caller EXCEPT ![j].timeouts = @ + 1]
    /\ UNCHANGED helper
    /\ CallerUnchanged

(***************************************************************************)
(* The specifications.                                                     *)
(***************************************************************************)
WorkerStep(j) ==
    \/ Submit(j)
    \/ Post(j)
    \/ CheckOpen(j)
    \/ SetOpen(j)
    \/ CheckFuture(j)
    \/ SubmitStream(j)
    \/ AddDoneCallback(j)
    \/ WorkerCloseStreamFlag(j)
    \/ WorkerCloseStreamLoop(j)
    \/ AddEventId(j)
    \/ ResetInbox(j)
    \/ ConsumeMessage(j)
    \/ Finalize(j)

StreamStep(s) ==
    \/ StreamStart(s)
    \/ StreamHeartbeat(s)
    \/ StreamServerStopped(s)
    \/ StreamCloseStream(s)
    \/ StreamError(s)
    \/ StreamRead(s)
    \/ StreamAppend(s)
    \/ StreamRemove(s)
    \/ StreamCheck(s)
    \/ StreamFinish(s)
    \/ StreamCloseStreamFlag(s)
    \/ StreamCloseStreamLoop(s)

Next ==
    \/ \E j \in Jobs : WorkerStep(j)
    \/ \E s \in Jobs : StreamStep(s)

(* Concurrent jobs over the shared stream; no caller cancels. *)
Spec == Init /\ [][Next]_vars

(* An app whose handler for job 1 raises; the app stays up and the         *)
(* transport does not fail, so every posted job gets its terminal message. *)
ErrInit ==
    /\ ClientInit
    /\ caller = << >>
    /\ lock = << >>
    /\ executor = max_workers
    /\ \E err \in {"null", "msg"} :
          server = [j \in Jobs |-> AppJob(IF j = 1 THEN err ELSE "absent")]
    /\ call = NoCall

ErrStreamStep(s) ==
    \/ StreamStart(s)
    \/ StreamHeartbeat(s)
    \/ StreamCloseStream(s)
    \/ StreamRead(s)
    \/ StreamAppend(s)
    \/ StreamRemove(s)
    \/ StreamCheck(s)
    \/ StreamFinish(s)
    \/ StreamCloseStreamFlag(s)
    \/ StreamCloseStreamLoop(s)

ErrNext ==
    \/ \E j \in Jobs : WorkerStep(j)
    \/ \E s \in Jobs : ErrStreamStep(s)

ErrSpec == ErrInit /\ [][ErrNext]_vars

(* One job with its caller, who may ask for its status and cancel it at    *)
(* any time.                                                               *)
ObservedJobs == {1}

JobInit ==
    /\ ClientInit
    /\ caller = [j \in ObservedJobs |-> NoCaller]
    /\ lock = << >>
    /\ executor = max_workers
    /\ server = [j \in Jobs |-> AppJob("absent")]
    /\ call = NoCall

JobNext ==
    \/ \E j \in ObservedJobs : WorkerStep(j)
    \/ \E j \in ObservedJobs : ConsumeCancel(j)
    \/ \E s \in ObservedJobs : StreamStep(s)
    \/ \E j \in ObservedJobs : StatusCall(j)
    \/ \E j \in ObservedJobs : Cancel(j)
    \/ \E j \in ObservedJobs : ResultCall(j)
    \/ \E j \in ObservedJobs : NextCall(j)
    \/ ResetSession

JobSpec == JobInit /\ [][JobNext]_vars

(* One job read by asynchronous iteration. *)
AiterNext ==
    \/ \E j \in ObservedJobs : WorkerStep(j)
    \/ \E s \in ObservedJobs : StreamStep(s)
    \/ \E j \in ObservedJobs : AiterYield(j)
    \/ \E j \in ObservedJobs : AiterTimeout(j)
    \/ \E j \in ObservedJobs : AiterDone(j)

AiterSpec == JobInit /\ [][AiterNext]_vars

(* One job, with records on the stream that are no messages. *)
ProtocolNext ==
    \/ \E j \in ObservedJobs : WorkerStep(j)
    \/ \E s \in ObservedJobs : StreamStep(s)
    \/ \E s \in ObservedJobs : StreamProtocolError(s)

ProtocolSpec == Init /\ [][ProtocolNext]_vars

(* One job under fair scheduling: the job's worker and the stream task its *)
(* send_data submitted each go on running as long as they have a step to   *)
(* take.                                                                   *)
LiveNext ==
    \/ \E j \in ObservedJobs : WorkerStep(j)
    \/ \E s \in ObservedJobs : StreamStep(s)

LiveSpec ==
    /\ Init
    /\ [][LiveNext]_vars
    /\ \A j \in ObservedJobs : WF_vars(WorkerStep(j))
    /\ \A s \in ObservedJobs : WF_vars(StreamStep(s))

(* Jobs submitted together to a client made with a small pool,           *)
(* Client(src, max_workers=n), of no more threads than there are jobs; the *)
(* app stays up and the transport does not fail.                           *)
PoolInit ==
    /\ ClientInit
    /\ caller = << >>
    /\ lock = << >>
    /\ executor \in 1 .. NJobs
    /\ server = [j \in Jobs |-> AppJob("absent")]
    /\ call = NoCall

PoolSpec == PoolInit /\ [][ErrNext]_vars

(* A caller who submits a job, resets the session and submits the next    *)
(* job: job j is submitted under the j-th session identity.  The app stays *)
(* up and the transport does not fail; the protocol is sse_v3, under which *)
(* a connection outlives the jobs it has served.                           *)
SessionNext ==
    \/ \E j \in Jobs : (pc[j] = "init" => session_hash = j) /\ WorkerStep(j)
    \/ \E s \in Jobs : ErrStreamStep(s)
    \/ pc[session_hash] # "init" /\ ResetSession

SessionInit ==
    /\ Init
    /\ protocol = "sse_v3"

SessionSpec == SessionInit /\ [][SessionNext]_vars

(* One job whose caller waits for the result with a timeout. *)
TimeoutNext ==
    \/ \E j \in ObservedJobs : WorkerStep(j)
    \/ \E s \in ObservedJobs : StreamStep(s)
    \/ \E j \in ObservedJobs : ResultTimeout(j)
    \/ \E j \in ObservedJobs : ResultCall(j)

TimeoutSpec == JobInit /\ [][TimeoutNext]_vars

(***************************************************************************)
(* The Communicator's lock.  A thread takes it with `with ...lock:`,       *)
(* touches the status record, the output list or should_cancel inside the  *)
(* block and releases it on leaving.  holder is the thread that has the    *)
(* lock ("none": it is free) and inside are the threads whose control is   *)
(* in a with block on it: "worker" is the pool thread that runs the job's  *)
(* task, "caller" the thread that calls the Job's methods.                 *)
(***************************************************************************)
NoLock == [holder |-> "none", inside |-> {}]

(* A with block entered with the lock left alone. *)
acquire_Unlocked(l, thread) ==
    [holder |-> l.holder, inside |-> l.inside \cup {thread}]

(* `with helper.lock:`, once the lock is free: the thread has it and is in *)
(* the block.                                                              *)
acquire(l, thread) ==
    [holder |-> thread, inside |-> l.inside \cup {thread}]

(* The end of the with block: the lock is free again. *)
release(l, thread) ==
    [holder |-> "none", inside |-> l.inside \ {thread}]

LockUnchanged ==
    UNCHANGED << protocol, stream_open, streaming_future,
                 pending_messages_per_event, pending_event_ids, streams,
                 pc, helper, future, server, app_running, caller, found,
                 call, session_hash, heartbeat, callbacks, executor >>

(* The worker's with blocks: the one of _inner around the final append,    *)
(* and while it waits for its messages the ones in which it records a      *)
(* message and looks at the cancellation flag.  Lock.__enter__ blocks      *)
(* while another thread has the lock.                                      *)
WorkerEnter(j) ==
    /\ pc[j] \in {"consume", "finalize"}
    /\ "worker" \notin lock[j].inside
    /\ lock[j].holder = "none"
    /\ lock' = [lock EXCEPT ![j] = acquire(@, "worker")]
    /\ LockUnchanged

(* Inside its block the worker records a message, sees the flag or makes   *)
(* the final append.                                                       *)
WorkerLocked(j) ==
    /\ "worker" \in lock[j].inside
    /\ \/ ConsumeMessage(j)
       \/ ConsumeCancel(j)
       \/ Finalize(j)

WorkerLeave(j) ==
    /\ "worker" \in lock[j].inside
    /\ lock' = [lock EXCEPT ![j] = release(@, "worker")]
    /\ LockUnchanged

(* The with blocks of Job.__next__, Job.status and Job.cancel. *)
CallerEnter(j) ==
    /\ pc[j] # "init"
    /\ "caller" \notin lock[j].inside
    /\ lock[j].holder = "none"
    /\ lock' = [lock EXCEPT ![j] = acquire(@, "caller")]
    /\ LockUnchanged

CallerLocked(j) ==
    /\ "caller" \in lock[j].inside
    /\ \/ NextCall(j)
       \/ StatusCall(j)
       \/ Cancel(j)

CallerLeave(j) ==
    /\ "caller" \in lock[j].inside
    /\ lock' = [lock EXCEPT ![j] = release(@, "caller")]
    /\ LockUnchanged

(* One job, its worker and its caller, with the Communicator's lock. *)
LockInit ==
    /\ ClientInit
    /\ caller = [j \in ObservedJobs |-> NoCaller]
    /\ lock = [j \in ObservedJobs |-> NoLock]
    /\ executor = max_workers
    /\ server = [j \in Jobs |-> AppJob("absent")]
    /\ call = NoCall

LockNext ==
    \/ \E j \in ObservedJobs : pc[j] \notin {"consume", "finalize"} /\ WorkerStep(j)
    \/ \E j \in ObservedJobs : WorkerEnter(j)
    \/ \E j \in ObservedJobs : WorkerLocked(j)
    \/ \E j \in ObservedJobs : WorkerLeave(j)
    \/ \E s \in ObservedJobs : StreamStep(s)
    \/ \E j \in ObservedJobs : CallerEnter(j)
    \/ \E j \in ObservedJobs : CallerLocked(j)
    \/ \E j \in ObservedJobs : CallerLeave(j)

LockSpec == LockInit /\ [][LockNext]_vars

(***************************************************************************)
(* Result callbacks: Client.submit registers one wrapper per callback on   *)
(* the Future with add_done_callback, after the task was handed to the     *)
(* executor, while the worker thread runs the task and finishes the        *)
(* Future.                                                                 *)
(***************************************************************************)

CallbacksUnchanged ==
    UNCHANGED << protocol, stream_open, streaming_future,
                 pending_messages_per_event, pending_event_ids, streams,
                 pc, helper, future, server, app_running, caller, found,
                 call, session_hash, heartbeat, lock, executor >>

(* create_fn(callback).fn(future): future.result() raises when the job     *)
(* ended in an exception, and the callback is not called; a tuple is       *)
(* spread over the callback's parameters, another value is passed whole.   *)
fn(callback, result, invoked) ==
    CASE result = "exception" -> invoked
      [] result = "tuple" -> Append(invoked, [callback |-> callback, args |-> "*result"])
      [] OTHER -> Append(invoked, [callback |-> callback, args |-> "result"])

(* submit(..., result_callbacks=[...]) up to executor.submit: n callbacks  *)
(* are given, and the task will end with a tuple, another value or an      *)
(* exception.                                                              *)
SubmitWithCallbacks ==
    /\ callbacks.n = 0
    /\ \E n \in 1 .. MaxCallbacks, r \in {"tuple", "value", "exception"} :
           callbacks' = [callbacks EXCEPT !.n = n, !.result = r]
    /\ CallbacksUnchanged

(* `job.add_done_callback(create_fn(callback))` for the next callback:     *)
(* Future.add_done_callback appends it while the Future is pending, and    *)
(* calls it at once, in the caller's thread, when the Future is finished.  *)
AddResultCallback ==
    /\ callbacks.added < callbacks.n
    /\ LET callback == callbacks.added + 1
       IN  callbacks' =
               IF callbacks.state = "PENDING"
               THEN [callbacks EXCEPT
                        !.added = callback,
                        !._done_callbacks = Append(@, callback)]
               ELSE [callbacks EXCEPT
                        !.added = callback,
                        !.invoked = fn(callback, callbacks.result, @)]
    /\ CallbacksUnchanged

(* The worker thread: Future.set_result or set_exception sets the state    *)
(* under the Future's condition and releases it.                           *)
SetResult ==
    /\ callbacks.n > 0
    /\ callbacks.state = "PENDING"
    /\ callbacks' = [callbacks EXCEPT !.state = "FINISHED"]
    /\ CallbacksUnchanged

(* The worker thread: Future._invoke_callbacks, one callback of the list. *)
InvokeCallback ==
    /\ callbacks.state = "FINISHED"
    /\ callbacks.invoking < Len(callbacks._done_callbacks)
    /\ callbacks' = [callbacks EXCEPT
                        !.invoking = @ + 1,
                        !.invoked = fn(callbacks._done_callbacks[callbacks.invoking + 1],
                                       callbacks.result, @)]
    /\ CallbacksUnchanged

CallbacksNext ==
    \/ SubmitWithCallbacks
    \/ AddResultCallback
    \/ SetResult
    \/ InvokeCallback

CallbacksSpec == Init /\ [][CallbacksNext]_vars

(***************************************************************************)
(* The heartbeat thread, Client._stream_heartbeat, with the caller's       *)
(* reset_session() and close().                                            *)
(***************************************************************************)

HeartbeatUnchanged ==
    UNCHANGED << protocol, stream_open, streaming_future,
                 pending_messages_per_event, pending_event_ids, streams,
                 pc, helper, future, server, app_running, caller, found,
                 call, session_hash, callbacks, lock, executor >>

(* The head of `while True`: the heartbeat url is made from the session   *)
(* identity of the moment.                                                 *)
HeartbeatUrl ==
    /\ heartbeat.pc = "connect"
    /\ heartbeat.connections < MaxConnections
    /\ heartbeat' = [heartbeat EXCEPT
                        !.pc = "open",
                        !.session_hash = session_hash]
    /\ HeartbeatUnchanged

(* The GET of that url: the connection is open. *)
HeartbeatConnect ==
    /\ heartbeat.pc = "open"
    /\ heartbeat' = [heartbeat EXCEPT
                        !.pc = "listening",
                        !.connections = @ + 1]
    /\ HeartbeatUnchanged

(* One line of response.iter_lines(): the refresh request is looked at    *)
(* first, and the kill request only when no refresh was pending.          *)
HeartbeatLine ==
    /\ heartbeat.pc = "listening"
    /\ heartbeat.lines < MaxLines
    /\ heartbeat' = [heartbeat EXCEPT
                        !.lines = @ + 1,
                        !._refresh_heartbeat = FALSE,
                        !.pc = IF heartbeat._refresh_heartbeat
                               THEN "connect"
                               ELSE IF heartbeat._kill_heartbeat
                                    THEN "exited"
                                    ELSE "listening"]
    /\ HeartbeatUnchanged

(* The app ends the response: the for loop is over and `while True` goes  *)
(* round.                                                                  *)
HeartbeatEnds ==
    /\ heartbeat.pc = "listening"
    /\ heartbeat' = [heartbeat EXCEPT !.pc = "connect"]
    /\ HeartbeatUnchanged

(* `except httpx.TransportError: return` *)
HeartbeatTransportError ==
    /\ heartbeat.pc \in {"open", "listening"}
    /\ heartbeat' = [heartbeat EXCEPT !.pc = "exited"]
    /\ HeartbeatUnchanged

(* Client.close: the kill request; the join gives up after a second. *)
Close ==
    /\ ~heartbeat._kill_heartbeat
    /\ heartbeat' = [heartbeat EXCEPT !._kill_heartbeat = TRUE]
    /\ HeartbeatUnchanged

HeartbeatNext ==
    \/ HeartbeatUrl
    \/ HeartbeatConnect
    \/ HeartbeatLine
    \/ HeartbeatEnds
    \/ HeartbeatTransportError
    \/ Close
    \/ ResetSession

HeartbeatSpec == Init /\ [][HeartbeatNext]_vars

(***************************************************************************)
(* Functions called on their own: the arguments are drawn at the start and *)
(* the function is applied to them.                                        *)
(***************************************************************************)

(* The Communicators status() can meet. *)
Communicators ==
    {NoCommunicator}
        \cup {[NoHelper EXCEPT !.should_cancel = c, !.latest_status = st] :
                 c \in BOOLEAN, st \in Statuses}

(* The Jobs status() can be called on: a Future that is not done has no    *)
(* exception.                                                              *)
StatusCalls ==
    {[fn |-> "status", communicator |-> c, done |-> d, exception |-> e,
      ret |-> NotRun] :
        c \in Communicators, d \in BOOLEAN, e \in Exceptions}

StatusArgs == {a \in StatusCalls : ~a.done => a.exception = "none"}

StatusApply ==
    /\ call.fn = "status"
    /\ call.ret = NotRun
    /\ call' = [call EXCEPT
                   !.ret = StatusUpdateOf(call.communicator, call.done,
                                          call.exception)]
    /\ UNCHANGED << protocol, stream_open, streaming_future,
                    pending_messages_per_event, pending_event_ids, streams,
                    pc, helper, future, server, app_running, caller, found,
                    session_hash, heartbeat, callbacks, lock, executor >>

(***************************************************************************)
(* Endpoint.process_predictions.  An endpoint's output_component_types is  *)
(* given by the skip flag of each component; the app answers with one      *)
(* value per output component.                                             *)
(***************************************************************************)
RECURSIVE remove_skipped_components(_, _)

(* `[d for d, oct in zip(data, self.output_component_types, strict=False)  *)
(*   if not oct.skip]`                                                     *)
remove_skipped_components(data, output_component_types) ==
    IF data = << >> \/ output_component_types = << >>
    THEN << >>
    ELSE (IF Head(output_component_types) THEN << >> ELSE << Head(data) >>)
             \o remove_skipped_components(Tail(data),
                                          Tail(output_component_types))

(* reduce_singleton_output counting every output component, skipped ones   *)
(* included, whatever _skip_components says.                               *)
reduce_singleton_output_AllSlots(data, output_component_types, skip_components) ==
    IF Len(output_component_types) = 1
    THEN [bare |-> TRUE, value |-> data[1]]
    ELSE [bare |-> FALSE, value |-> data]

(* reduce_singleton_output: `data[0]` when there is one effective output   *)
(* component, else `data`.                                                 *)
reduce_singleton_output(data, output_component_types, skip_components) ==
    LET effective_output_components ==
            IF skip_components
            THEN SelectSeq(output_component_types, LAMBDA skip : ~skip)
            ELSE output_component_types
    IN  IF Len(effective_output_components) = 1
        THEN [bare |-> TRUE, value |-> data[1]]
        ELSE [bare |-> FALSE, value |-> data]

(* process_predictions after the download of files, which keeps the number *)
(* and the order of the values.                                            *)
process_predictions(predictions, output_component_types, skip_components) ==
    LET kept == IF skip_components
                THEN remove_skipped_components(predictions,
                                               output_component_types)
                ELSE predictions
    IN  reduce_singleton_output(kept, output_component_types, skip_components)

(* The output schemas of up to MaxSlots components. *)
Schemas == UNION {[1 .. n -> BOOLEAN] : n \in 0 .. MaxSlots}

(* The calls of process_predictions: the app's answer holds the value of   *)
(* each slot, here 10 times the slot's index.                              *)
PredictionArgs ==
    {[fn |-> "process_predictions",
      predictions |-> [i \in 1 .. Len(t) |-> 10 * i],
      output_component_types |-> t, skip_components |-> k, ret |-> NotRun] :
        t \in Schemas, k \in BOOLEAN}

ProcessPredictionsApply ==
    /\ call.fn = "process_predictions"
    /\ call.ret = NotRun
    /\ call' = [call EXCEPT
                   !.ret = process_predictions(call.predictions,
                                               call.output_component_types,
                                               call.skip_components)]
    /\ UNCHANGED << protocol, stream_open, streaming_future,
                    pending_messages_per_event, pending_event_ids, streams,
                    pc, helper, future, server, app_running, caller, found,
                    session_hash, heartbeat, callbacks, lock, executor >>

(***************************************************************************)
(* Endpoint.make_cancel for an app of version 4.29.0 or below, called by   *)
(* Client.submit.  A dependency of the config is given by the indices it   *)
(* cancels and by its api_name: a string, or False for an endpoint the app *)
(* keeps out of its API.  What is returned says what the job's cancel()    *)
(* will do: the fn_index its request names (0: no request is sent) and the *)
(* warning it gives; or make_cancel raises.                                *)
(***************************************************************************)

(* `[d for d in dep["cancels"] if d != self.fn_index]` *)
other_cancelled(fn_index, dep) == dep.cancels \ {fn_index}

make_cancel(fn_index, dependencies) ==
    LET candidates == {i \in 1 .. Len(dependencies) :
                          fn_index \in dependencies[i].cancels}
        others(i) == other_cancelled(fn_index, dependencies[i])
        \* min(candidates, key=lambda x: len(x[1])): the first of the least
        least == {i \in candidates :
                    \A k \in candidates :
                       Cardinality(others(i)) <= Cardinality(others(k))}
        target == CHOOSE i \in least : \A k \in least : i <= k
    IN  IF candidates = {}
        THEN [raised |-> "none", request |-> 0,
              warning |-> "will not stop the server"]
        ELSE IF others(target) = {}
             THEN [raised |-> "none", request |-> target, warning |-> "none"]
             \* `"/" + self.client.config["dependencies"][i].get("api_name")`
             ELSE IF \E d \in others(target) : dependencies[d].api_name = "False"
                  THEN [raised |-> "TypeError", request |-> 0, warning |-> "none"]
                  ELSE [raised |-> "none", request |-> target,
                        warning |-> "will also cancel"]

(* The configs of MaxDeps dependencies. *)
Dependencies ==
    [1 .. MaxDeps -> [cancels : SUBSET (1 .. MaxDeps),
                      api_name : {"name", "False"}]]

CancelArgs ==
    {[fn |-> "make_cancel", fn_index |-> i, dependencies |-> d, ret |-> NotRun] :
        i \in 1 .. MaxDeps, d \in Dependencies}

MakeCancelApply ==
    /\ call.fn = "make_cancel"
    /\ call.ret = NotRun
    /\ call' = [call EXCEPT !.ret = make_cancel(call.fn_index, call.dependencies)]
    /\ UNCHANGED << protocol, stream_open, streaming_future,
                    pending_messages_per_event, pending_event_ids, streams,
                    pc, helper, future, server, app_running, caller, found,
                    session_hash, heartbeat, callbacks, lock, executor >>

(***************************************************************************)
(* Client.submit up to the Job it returns: the endpoint is chosen by       *)
(* _infer_fn_index, the arguments are completed by utils.construct_args,   *)
(* and the call is handed to the executor.  An endpoint of the config is   *)
(* given by its api_name (a string, None, or False for a disabled          *)
(* endpoint), by whether it has a backend function and is shown in the     *)
(* API, and by the number of parameters it requires.  Ids are positions.   *)
(***************************************************************************)

(* `"/" + config_api_name` *)
Slashed(config_api_name) == IF config_api_name = "predict" THEN "/predict" ELSE "/"

(* Endpoint.is_valid *)
is_valid(dependency) == dependency.api_name # "False"

RECURSIVE FirstNamed(_, _, _)
(* the for loop of _infer_fn_index: the first dependency whose api_name   *)
(* matches, 0 when the loop runs into its else branch                      *)
FirstNamed(dependencies, api_name, i) ==
    IF i > Len(dependencies) THEN 0
    ELSE IF /\ dependencies[i].api_name \notin {"None", "False"}
            /\ Slashed(dependencies[i].api_name) = api_name
         THEN i
         ELSE FirstNamed(dependencies, api_name, i + 1)

(* What _infer_fn_index returns: the index, or 0 when it raises ValueError. *)
_infer_fn_index(dependencies, api_name, fn_index) ==
    IF api_name # "None"
    THEN FirstNamed(dependencies, api_name, 1)
    ELSE IF fn_index # 0
         THEN IF \/ fn_index \notin 1 .. Len(dependencies)
                 \/ ~is_valid(dependencies[fn_index])
              THEN 0
              ELSE fn_index
         ELSE LET valid_endpoints ==
                      {i \in 1 .. Len(dependencies) :
                          /\ is_valid(dependencies[i])
                          /\ dependencies[i].api_name # "None"
                          /\ dependencies[i].backend_fn
                          /\ dependencies[i].show_api}
              IN  IF Cardinality(valid_endpoints) = 1
                  THEN CHOOSE i \in valid_endpoints : TRUE
                  ELSE 0

(* utils.construct_args: the positional arguments are completed from the   *)
(* endpoint's parameters_info; a required parameter that was not supplied  *)
(* raises TypeError.                                                       *)
construct_args(required, args) == IF args < required THEN "TypeError" ELSE "none"

submit(endpoint_class, dependencies, api_name, fn_index, args) ==
    LET inferred_fn_index == _infer_fn_index(dependencies, api_name, fn_index)
    IN  IF inferred_fn_index = 0
        THEN [raised |-> "ValueError", scheduled |-> FALSE, job |-> FALSE]
        ELSE IF /\ endpoint_class = "Endpoint"
                /\ construct_args(dependencies[inferred_fn_index].required, args) # "none"
             THEN [raised |-> "TypeError", scheduled |-> FALSE, job |-> FALSE]
             \* self.executor.submit(end_to_end_fn, *args), then the Job
             ELSE [raised |-> "none", scheduled |-> TRUE, job |-> TRUE]

(* The endpoints of a config of MaxDeps dependencies. *)
EndpointConfigs ==
    [1 .. MaxDeps ->
        {d \in [api_name : {"predict", "None", "False"},
                backend_fn : BOOLEAN, show_api : BOOLEAN,
                required : 0 .. 1] : d.backend_fn \/ d.show_api}]

SubmitArgs ==
    {[fn |-> "submit", endpoint_class |-> c, dependencies |-> d,
      api_name |-> a, fn_index |-> i, args |-> n, ret |-> NotRun] :
        c \in {"Endpoint", "EndpointV3Compatibility"}, d \in EndpointConfigs,
        a \in {"None", "/predict", "/other"}, i \in 0 .. MaxDeps + 1,
        n \in 0 .. 1}

SubmitApply ==
    /\ call.fn = "submit"
    /\ call.ret = NotRun
    /\ call' = [call EXCEPT !.ret = submit(call.endpoint_class, call.dependencies,
                                           call.api_name, call.fn_index, call.args)]
    /\ UNCHANGED << protocol, stream_open, streaming_future,
                    pending_messages_per_event, pending_event_ids, streams,
                    pc, helper, future, server, app_running, caller, found,
                    session_hash, heartbeat, callbacks, lock, executor >>

(***************************************************************************)
(* The inputs of a job on their way to the app: Endpoint._inner runs       *)
(* process_input_files over the data and then _predict.  An input is a     *)
(* plain value, a file at an http url, or a local file of some size; the   *)
(* config gives max_file_size or leaves it out (None).                     *)
(***************************************************************************)

Inputs == {[kind |-> "value", size |-> 0], [kind |-> "url", size |-> 0],
           [kind |-> "file", size |-> 1], [kind |-> "file", size |-> 2]}

MaxFileSizes == {[given |-> FALSE, max_file_size |-> 0],
                 [given |-> TRUE, max_file_size |-> 1]}

(* `os.path.getsize(file_path) > max_file_size`, math.inf when None *)
ExceedsMax(f, config) ==
    /\ f.kind = "file"
    /\ config.given
    /\ f.size > config.max_file_size

RECURSIVE process_input_files(_, _, _, _)
(* The loop over the data from index i on, uploads being the indices whose *)
(* file was already sent to the upload route: _upload_file checks the size *)
(* of a local file and posts it before the next input is looked at.        *)
process_input_files(data, config, i, uploads) ==
    IF i > Len(data)
    THEN [raised |-> "none", uploads |-> uploads]
    ELSE IF data[i].kind # "file"
         THEN process_input_files(data, config, i + 1, uploads)
         ELSE IF ExceedsMax(data[i], config)
              THEN [raised |-> "ValueError", uploads |-> uploads]
              ELSE process_input_files(data, config, i + 1, Append(uploads, i))

(* _inner: the files, then the submit POST of _predict. *)
_inner(data, config) ==
    LET processed == process_input_files(data, config, 1, << >>)
    IN  [raised |-> processed.raised, uploads |-> processed.uploads,
         posted |-> processed.raised = "none"]

InnerArgs ==
    {[fn |-> "_inner", data |-> d, config |-> c, ret |-> NotRun] :
        d \in UNION {[1 .. n -> Inputs] : n \in 0 .. MaxInputs},
        c \in MaxFileSizes}

InnerApply ==
    /\ call.fn = "_inner"
    /\ call.ret = NotRun
    /\ call' = [call EXCEPT !.ret = _inner(call.data, call.config)]
    /\ UNCHANGED << protocol, stream_open, streaming_future,
                    pending_messages_per_event, pending_event_ids, streams,
                    pc, helper, future, server, app_running, caller, found,
                    session_hash, heartbeat, callbacks, lock, executor >>

(***************************************************************************)
(* Endpoint._download_file, called for one remote file after the other.    *)
(* A remote file is the name its url ends with and the content the app     *)
(* serves for it; the sha256 of the bytes received names the directory.    *)
(***************************************************************************)

RemoteFiles == [name : {"a.png", "b.png"}, content : {"x", "y"}]

(* hashlib.sha256 over the chunks: one digest per content *)
hexdigest(content) == IF content = "x" THEN "sha(x)" ELSE "sha(y)"

(* One call: the GET streams the bytes into a fresh temporary directory,   *)
(* and the file is moved to output_dir/<digest>/<name>.                    *)
_download_file(x) ==
    [transfer |-> x.content,
     dest |-> << "output_dir", hexdigest(x.content), x.name >>]

RECURSIVE DownloadAll(_, _, _)
DownloadAll(files, i, done) ==
    IF i > Len(files)
    THEN done
    ELSE DownloadAll(files, i + 1,
                     [dests |-> Append(done.dests, _download_file(files[i]).dest),
                      transfers |-> Append(done.transfers,
                                           _download_file(files[i]).transfer)])

DownloadArgs ==
    {[fn |-> "_download_file", files |-> f, ret |-> NotRun] :
        f \in UNION {[1 .. n -> RemoteFiles] : n \in 1 .. MaxDownloads}}

DownloadApply ==
    /\ call.fn = "_download_file"
    /\ call.ret = NotRun
    /\ call' = [call EXCEPT !.ret = DownloadAll(call.files, 1,
                                                [dests |-> << >>, transfers |-> << >>])]
    /\ UNCHANGED << protocol, stream_open, streaming_future,
                    pending_messages_per_event, pending_event_ids, streams,
                    pc, helper, future, server, app_running, caller, found,
                    session_hash, heartbeat, callbacks, lock, executor >>

FnInit ==
    /\ ClientInit
    /\ protocol = "sse_v3"
    /\ caller = << >>
    /\ lock = << >>
    /\ executor = max_workers
    /\ server = [j \in Jobs |-> AppJob("absent")]
    /\ call \in StatusArgs \cup PredictionArgs \cup CancelArgs
                  \cup SubmitArgs
                  \cup InnerArgs
                  \cup DownloadArgs

FnNext ==
    \/ StatusApply
    \/ ProcessPredictionsApply
    \/ MakeCancelApply
    \/ SubmitApply
    \/ InnerApply
    \/ DownloadApply

FnSpec == FnInit /\ [][FnNext]_vars

(***************************************************************************)
(* Properties.                                                             *)
(***************************************************************************)
IsJobMessage(m) == m.event_id # 0

Inboxes == DOMAIN pending_messages_per_event

(* C1: a job message is only ever in the inbox registered under its own    *)
(* event_id, and a job's output list holds only outputs computed for that  *)
(* job, whatever the interleaving of submits and stream deliveries.        *)
C1_Partition ==
    /\ \A e \in Inboxes :
          \A i \in 1 .. Len(pending_messages_per_event[e]) :
             IsJobMessage(pending_messages_per_event[e][i])
                 => pending_messages_per_event[e][i].event_id = e
    /\ \A j \in Jobs :
          \A i \in 1 .. Len(helper[j].outputs) : helper[j].outputs[i][1] = j

(* Two jobs served by one stream task have both read outputs of their own. *)
C1_Witness ==
    /\ streams[1].st # "none"
    /\ streams[2].st = "none"
    /\ helper[1].outputs # << >>
    /\ helper[2].outputs # << >>

(* C2: every id a submit was given leaves the awaiting set exactly once,   *)
(* at the step where the stream task handles that id's process_completed:  *)
(* that step finds the id in the set and removes it, and no other step     *)
(* removes an id.                                                          *)
C2_RemovedExactlyOnce ==
    [][ /\ \A s \in Jobs :
              (streams[s].st = "appended" /\ streams'[s].st # "appended")
                  => /\ streams[s].cur.event_id \in pending_event_ids
                     /\ pending_event_ids' =
                            pending_event_ids \ {streams[s].cur.event_id}
        /\ \A e \in pending_event_ids \ pending_event_ids' :
              \E s \in Jobs : /\ streams[s].st = "appended"
                              /\ streams[s].cur.event_id = e
                              /\ streams'[s].st = "check" ]_vars

(* C3: at most one stream task is scheduled or running at any time.        *)
C3_OneStreamInFlight ==
    Cardinality({s \in Jobs : InFlight(s)}) <= 1

(* C4: when the done-callback of a stream task has run its loop, every id  *)
(* of the awaiting set has an inbox that ends with the sentinel.           *)
CloseStreamLoopStep ==
    \/ \E s \in Jobs : streams[s].st = "cb_loop" /\ streams'[s].st # "cb_loop"
    \/ \E j \in Jobs : pc[j] = "cb_loop" /\ pc'[j] # "cb_loop"

C4_SentinelToEveryAwaiting ==
    [][ CloseStreamLoopStep
            => \A e \in pending_event_ids :
                  /\ e \in DOMAIN pending_messages_per_event'
                  /\ pending_messages_per_event'[e] # << >>
                  /\ pending_messages_per_event'[e]
                         [Len(pending_messages_per_event'[e])] = None ]_vars

(* C5: a send_data that found stream_open false leaves its check of        *)
(* streaming_future with a new stream task to schedule.  Stated for the    *)
(* submit during whose send_data no other submit has replaced              *)
(* streaming_future: the task it names is the one that had closed.         *)
C5_ReopenWhenClosed ==
    [][ \A j \in Jobs :
           ( /\ pc[j] = "check_future"
             /\ pc'[j] # "check_future"
             /\ streaming_future = found[j] )
               => pc'[j] = "submit_stream" ]_vars

(* C6: the job messages of an inbox are in the order the app sent them    *)
(* over the network: a message of a job read from the network before       *)
(* another of the same job precedes it in the job's inbox.                 *)
C6_InboxOrder ==
    \A e \in Inboxes :
       \A i, k \in 1 .. Len(pending_messages_per_event[e]) :
          ( /\ i < k
            /\ IsJobMessage(pending_messages_per_event[e][i])
            /\ IsJobMessage(pending_messages_per_event[e][k]) )
              => pending_messages_per_event[e][i].n
                     < pending_messages_per_event[e][k].n

C8_V3StaysOpen ==
    [][ \A s \in Jobs :
           protocol = "sse_v3"
               => /\ (streams[s].st = "check" /\ streams'[s].st # streams[s].st)
                         => streams'[s].st = "read" /\ UNCHANGED stream_open
                  /\ (streams[s].st # "exiting" /\ streams'[s].st = "exiting")
                         => streams[s].st \in {"read", "appended"} ]_vars

(* Under sse_v3 one stream task has served both jobs to completion and is  *)
(* still reading with the awaiting set empty.                              *)
C8_Witness ==
    /\ protocol = "sse_v3"
    /\ streams[1].st = "read"
    /\ streams[2].st = "none"
    /\ pending_event_ids = {}
    /\ \A j \in Jobs : pc[j] = "done" /\ future[j].exception = "none"

(* C9: once cancel() has returned for a job, status() reports CANCELLED,   *)
(* whatever the state of the backing computation.                          *)
C9_CancelledSticks ==
    \A j \in ObservedJobs : caller[j].cancelled => Status(j).code = "CANCELLED"

(* The job was cancelled while it ran, its computation has completed with  *)
(* a result since, and a status() call has returned CANCELLED.             *)
C9_Witness ==
    /\ caller[1].cancelled
    /\ pc[1] = "done"
    /\ future[1].exception = "none"
    /\ caller[1].last_status = "CANCELLED"

(* C10: once status() has reported FINISHED for a job, no later status()   *)
(* call reports CANCELLED, whatever is called in between.                  *)
C10_FinishedNotRetracted ==
    \A j \in ObservedJobs :
       caller[j].seen_finished => caller[j].last_status # "CANCELLED"

(* C11: a cancel() of a job whose backing computation had finished does   *)
(* not retract its result: what result() returns or raises after the       *)
(* cancel is what it returned or raised before it.                         *)
C11_CancelKeepsResult ==
    \A j \in ObservedJobs :
       ( /\ caller[j].at_cancel # NoResult
         /\ caller[j].after_cancel # NoResult )
           => caller[j].after_cancel = caller[j].at_cancel

(* result() returned a value, the finished job was cancelled, status()     *)
(* says CANCELLED and result() has been called again.                      *)
C11_Witness ==
    /\ caller[1].at_cancel # NoResult
    /\ caller[1].at_cancel.raised = "none"
    /\ caller[1].after_cancel # NoResult
    /\ helper[1].should_cancel
    /\ caller[1].last_status = "CANCELLED"

(* C12: every result() call on a completed job returns or raises what the  *)
(* first one did.                                                          *)
C12_ResultIdempotent ==
    \A j \in ObservedJobs :
       caller[j].result_calls > 0
           => /\ caller[j].last_result = caller[j].first_result
              /\ caller[j].last_result = Result(j)

(* result() has been called MaxCalls times on a job that ended with an     *)
(* exception.                                                              *)
C12_Witness ==
    /\ caller[1].result_calls = MaxCalls
    /\ caller[1].last_result.raised # "none"

(* C13: status() decides in a fixed order: CANCELLED when the Communicator *)
(* has the cancel flag; else FINISHED when the Future is done, with        *)
(* success true exactly when it holds no exception; else PROCESSING when   *)
(* there is no Communicator; else the Communicator's latest status.  It    *)
(* always returns a status.                                                *)
C13_StatusOrder ==
    (call.fn = "status" /\ call.ret # NotRun)
        => LET c == call.communicator
               cancelled == c # NoCommunicator /\ c.should_cancel
           IN  /\ call.ret.code \in Statuses
               /\ cancelled => call.ret.code = "CANCELLED"
               /\ (~cancelled /\ call.done)
                     => /\ call.ret.code = "FINISHED"
                        /\ call.ret.success = "True" <=> call.exception = "none"
                        /\ call.ret.success = "False" <=> call.exception # "none"
               /\ (~cancelled /\ ~call.done /\ c = NoCommunicator)
                     => call.ret.code = "PROCESSING"
               /\ (~cancelled /\ ~call.done /\ c # NoCommunicator)
                     => call.ret.code = c.latest_status

(* status() has answered CANCELLED for a cancelled job whose Future is     *)
(* done and holds an exception.                                            *)
C13_Witness ==
    /\ call.fn = "status"
    /\ call.ret # NotRun
    /\ call.communicator # NoCommunicator
    /\ call.communicator.should_cancel
    /\ call.done
    /\ call.exception # "none"

(* C14: a job whose terminal message carries an error field ends with an  *)
(* AppError, the generic one when the field is null: result() raises it    *)
(* and status() reports FINISHED with success false.  A job whose terminal *)
(* message carries no error field ends with its own result, whatever the   *)
(* other job's message carried.                                            *)
C14_ErrorIsAppError ==
    \A j \in Jobs :
       (Done(j) /\ helper[j].latest_status = "FINISHED")
           => IF server[j].error # "absent"
              THEN /\ Result(j).raised =
                         (IF server[j].error = "null"
                          THEN "AppError(generic)" ELSE "AppError(message)")
                   /\ Status(j) = [code |-> "FINISHED", success |-> "False"]
              ELSE /\ Result(j).raised = "none"
                   /\ Result(j).value[1][1] = j
                   /\ Status(j) = [code |-> "FINISHED", success |-> "True"]

(* Served by one stream task, job 1 has ended with the generic AppError    *)
(* and job 2 with its result.                                              *)
C14_Witness ==
    /\ streams[1].st # "none"
    /\ streams[2].st = "none"
    /\ Done(1)
    /\ future[1].exception = "AppError(generic)"
    /\ Done(2)
    /\ future[2].exception = "none"
    /\ future[2].result # << >>

(* C15: a submit POST answered with 503 ends the job with QueueError, and  *)
(* no other answer does; that job registers no event id and no inbox and   *)
(* schedules no stream task, and the step leaves stream_open, the awaiting *)
(* set, the inbox registry and the stream tasks as they were.              *)
C15_QueueFull ==
    /\ [](\A j \in Jobs :
             /\ server[j].status_code = 503
                   <=> (Done(j) /\ future[j].exception = "QueueError")
             /\ server[j].status_code = 503
                   => /\ helper[j].event_id = 0
                      /\ j \notin pending_event_ids
                      /\ j \notin DOMAIN pending_messages_per_event
                      /\ streams[j].st = "none")
    /\ [][ \A j \in Jobs :
              (server[j].status_code # 503 /\ server'[j].status_code = 503)
                  => UNCHANGED << stream_open, streaming_future,
                                  pending_event_ids,
                                  pending_messages_per_event, streams >> ]_vars

(* Job 2's submit was answered with 503 while job 1 awaits its messages on *)
(* the open stream.                                                        *)
C15_Witness ==
    /\ server[2].status_code = 503
    /\ future[2].exception = "QueueError"
    /\ stream_open
    /\ streams[1].st = "read"
    /\ pending_event_ids = {1}

(* C16: the iteration yields the entries of the job's output list once    *)
(* each and in index order, and when it has stopped the recorded status is *)
(* FINISHED and it has yielded every entry of the list.                    *)
C16_IterationYieldsAll ==
    \A j \in ObservedJobs :
       /\ Len(caller[j].yielded) <= Len(helper[j].outputs)
       /\ caller[j].yielded = SubSeq(helper[j].outputs, 1, Len(caller[j].yielded))
       /\ caller[j].stopped
             => /\ helper[j].latest_status = "FINISHED"
                /\ caller[j].yielded = helper[j].outputs

(* C17: once a job has completed with a result, its output list is not    *)
(* empty and ends with that result, and no entry is in it twice: the final *)
(* output is the only entry when no intermediate output was recorded, and  *)
(* is not appended again when one was.                                     *)
C17_OutputsEndWithResult ==
    \A j \in Jobs :
       (Done(j) /\ future[j].exception = "none")
           => LET outputs == Outputs(j)
              IN  /\ outputs # << >>
                  /\ outputs[Len(outputs)] = Result(j).value[1]
                  /\ \A i, k \in 1 .. Len(outputs) :
                        outputs[i] = outputs[k] => i = k

(* The job was seen ITERATING (an intermediate output was recorded) and    *)
(* has completed with a result since.                                      *)
C17_Witness ==
    /\ caller[1].last_status = "ITERATING"
    /\ Done(1)
    /\ future[1].exception = "none"
    /\ Outputs(1) # << >>

(* C18: with N the number of output slots that count (all of them without *)
(* skip-filtering, the non-skipped ones with it), process_predictions      *)
(* returns the bare value of the one slot when N = 1, and otherwise the    *)
(* sequence of the N slots' values in slot order.                          *)
C18_ReductionRule ==
    (call.fn = "process_predictions" /\ call.ret # NotRun)
        => LET types == call.output_component_types
               effective == {i \in 1 .. Len(types) :
                               ~call.skip_components \/ ~types[i]}
               N == Cardinality(effective)
               rank(i) == Cardinality({k \in effective : k <= i})
           IN  /\ call.ret.bare <=> N = 1
               /\ call.ret.bare
                     => \A i \in effective : call.ret.value = call.predictions[i]
               /\ ~call.ret.bare
                     => /\ Len(call.ret.value) = N
                        /\ \A i \in effective :
                              call.ret.value[rank(i)] = call.predictions[i]

(* An endpoint of two output components of which the first is skipped,     *)
(* with skip-filtering: the value of the second is returned bare.          *)
C18_Witness ==
    /\ call.fn = "process_predictions"
    /\ call.output_component_types = << TRUE, FALSE >>
    /\ call.skip_components
    /\ call.ret = [bare |-> TRUE, value |-> 20]

(* C19: a cancel request posted for a job the app has queued carries the  *)
(* event id the app gave that job and the session_hash the job was         *)
(* submitted under, whenever in the job's life cancel() is called.         *)
C19_CancelIdentifiesJob ==
    [][ \A j \in ObservedJobs :
           ( /\ caller'[j].cancel_post # caller[j].cancel_post
             /\ server[j].posted )
               => /\ caller'[j].cancel_post.event_id = j
                  /\ caller'[j].cancel_post.session_hash
                         = server[j].session_hash ]_vars

(* C20: on an app of version 4.29.0 or below, when no dependency cancels   *)
(* the endpoint, cancel() sends no request and warns that the server keeps *)
(* running; when some do, its request names one of those that cancel the   *)
(* fewest other endpoints, and it warns exactly when that one cancels      *)
(* another endpoint too.                                                   *)
C20_LegacyCancel ==
    (call.fn = "make_cancel" /\ call.ret # NotRun)
        => LET deps == call.dependencies
               cands == {i \in 1 .. Len(deps) : call.fn_index \in deps[i].cancels}
               also(i) == deps[i].cancels \ {call.fn_index}
           IN  /\ call.ret.raised = "none"
               /\ cands = {}
                     => /\ call.ret.request = 0
                        /\ call.ret.warning = "will not stop the server"
               /\ cands # {}
                     => /\ call.ret.request \in cands
                        /\ \A i \in cands :
                              Cardinality(also(call.ret.request))
                                  <= Cardinality(also(i))
                        /\ IF also(call.ret.request) = {}
                           THEN call.ret.warning = "none"
                           ELSE call.ret.warning = "will also cancel"

(* C21: a submit with an unknown api_name, with an fn_index that is no     *)
(* endpoint or a disabled one, with no selector on an app that does not    *)
(* have exactly one eligible endpoint, or without a required parameter of  *)
(* the endpoint it selects, raises inside submit(): no Job is returned and *)
(* nothing is handed to the worker pool.                                   *)
C21_InvalidSubmitRaises ==
    (call.fn = "submit" /\ call.ret # NotRun)
        => LET d == call.dependencies
               named == {i \in 1 .. Len(d) :
                           /\ d[i].api_name = "predict"
                           /\ call.api_name = "/predict"}
               eligible == {i \in 1 .. Len(d) :
                              /\ d[i].api_name = "predict"
                              /\ d[i].backend_fn /\ d[i].show_api}
               selected ==
                   IF call.api_name # "None"
                   THEN named
                   ELSE IF call.fn_index # 0
                        THEN {i \in 1 .. Len(d) :
                                 i = call.fn_index /\ d[i].api_name # "False"}
                        ELSE IF Cardinality(eligible) = 1 THEN eligible ELSE {}
               first == CHOOSE i \in selected : \A k \in selected : i <= k
               invalid == \/ selected = {}
                          \/ call.args < d[first].required
           IN  invalid => /\ call.ret.raised # "none"
                          /\ ~call.ret.scheduled
                          /\ ~call.ret.job

(* C22: a job with an input file larger than the maximum the app gives     *)
(* fails with the configuration error before any request is sent for it:   *)
(* no file is uploaded and the submit POST is not sent, wherever the       *)
(* oversized file stands among the inputs.                                 *)
C22_OversizedBeforeNetwork ==
    (/\ call.fn = "_inner"
     /\ call.ret # NotRun
     /\ \E i \in 1 .. Len(call.data) : ExceedsMax(call.data[i], call.config))
        => /\ call.ret.raised = "ValueError"
           /\ call.ret.uploads = << >>
           /\ ~call.ret.posted

(* C23: once close() has set the kill request, the heartbeat exits at the  *)
(* next line it receives, a refresh request pending or not, and it opens   *)
(* no connection after that line.                                          *)
C23_KillExitsAtNextLine ==
    [][ (heartbeat._kill_heartbeat /\ heartbeat'.lines = heartbeat.lines + 1)
            => heartbeat'.pc = "exited" ]_vars

(* C24: asynchronous iteration over a job yields the updates put on the    *)
(* Communicator's queue in the order they were put, and when it has ended  *)
(* the computation is done and no update is left on the queue.             *)
C24_AiterYieldsUpdates ==
    /\ [][ \A j \in ObservedJobs :
              caller'[j].updates # caller[j].updates
                  => /\ helper[j].updates # << >>
                     /\ caller'[j].updates
                            = Append(caller[j].updates, Head(helper[j].updates))
                     /\ helper'[j].updates = Tail(helper[j].updates) ]_vars
    /\ [](\A j \in ObservedJobs :
              caller[j].aiter = "return"
                  => Done(j) /\ helper[j].updates = << >>)

(* C25: two downloads of the same remote content give the same local path, *)
(* and the bytes of one content are transferred at most once.              *)
C25_DownloadIdempotent ==
    (call.fn = "_download_file" /\ call.ret # NotRun)
        => \A a, b \in 1 .. Len(call.files) :
              (a < b /\ call.files[a].content = call.files[b].content)
                  => /\ call.ret.dests[a] = call.ret.dests[b]
                     /\ Cardinality({t \in 1 .. Len(call.ret.transfers) :
                                        call.ret.transfers[t] = call.files[a].content})
                            <= 1

(* C26: the result callbacks given to submit() are called in the order     *)
(* given and each at most once, with the outputs as separate arguments for *)
(* a tuple and as one argument otherwise, never when the job ended in an   *)
(* exception, and each exactly once when the job has a result and all      *)
(* callbacks were registered and run.                                      *)
C26_CallbacksInOrder ==
    /\ \A a, b \in 1 .. Len(callbacks.invoked) :
           a < b => callbacks.invoked[a].callback < callbacks.invoked[b].callback
    /\ \A a \in 1 .. Len(callbacks.invoked) :
           /\ callbacks.state = "FINISHED"
           /\ callbacks.result # "exception"
           /\ callbacks.invoked[a].args
                  = IF callbacks.result = "tuple" THEN "*result" ELSE "result"
    /\ (/\ callbacks.n > 0
        /\ callbacks.added = callbacks.n
        /\ callbacks.state = "FINISHED"
        /\ callbacks.invoking = Len(callbacks._done_callbacks)
        /\ callbacks.result # "exception")
           => Len(callbacks.invoked) = callbacks.n

(* C27: a result(timeout) call that times out changes nothing of the job:  *)
(* the worker goes on, the Communicator, the inboxes and the awaiting set  *)
(* are as they were; and a result() call made once the job is done, after  *)
(* a timeout, returns or raises what the job ended with.                   *)
C27_TimeoutChangesNothing ==
    /\ [][ \A j \in ObservedJobs :
              caller'[j].timeouts # caller[j].timeouts
                  => UNCHANGED << pc, helper, future, pending_messages_per_event,
                                  pending_event_ids, stream_open,
                                  streaming_future, streams >> ]_vars
    /\ [](\A j \in ObservedJobs :
              (caller[j].timeouts > 0 /\ caller[j].result_calls > 0)
                  => caller[j].last_result
                         = [raised |-> future[j].exception,
                            value |-> IF future[j].exception = "none"
                                      THEN future[j].result ELSE << >>])

(* C27: a timed-out call was followed by the end of the job and by a       *)
(* result() call that returned the job's value.                            *)
C27_Witness ==
    \E j \in ObservedJobs :
        /\ caller[j].timeouts > 0
        /\ caller[j].result_calls > 0
        /\ caller[j].last_result.raised = "none"
        /\ caller[j].last_result.value # << >>

(* C28: a message buffered into the inbox of an id stays there until the   *)
(* job reads it: in every step an inbox of the registry is kept, and its   *)
(* list is either extended at the end or shortened by its head, which the  *)
(* waiting job takes.                                                      *)
C28_InboxKept ==
    [][ \A e \in Inboxes :
           /\ e \in DOMAIN pending_messages_per_event'
           /\ \/ /\ Len(pending_messages_per_event'[e])
                       >= Len(pending_messages_per_event[e])
                 /\ SubSeq(pending_messages_per_event'[e], 1,
                           Len(pending_messages_per_event[e]))
                       = pending_messages_per_event[e]
              \/ /\ pc[e] = "consume"
                 /\ pending_messages_per_event[e] # << >>
                 /\ pending_messages_per_event'[e]
                       = Tail(pending_messages_per_event[e]) ]_vars

(* C29: when the stream task reads server_stopped, the message is appended *)
(* to the inbox of every job of the awaiting set, and the task leaves its  *)
(* reading loop.                                                           *)
C29_ServerStoppedToAwaiting ==
    [][ (app_running /\ ~app_running')
            => /\ \A e \in pending_event_ids :
                     /\ e \in DOMAIN pending_messages_per_event'
                     /\ pending_messages_per_event'[e] # << >>
                     /\ pending_messages_per_event'[e]
                            [Len(pending_messages_per_event'[e])] = ServerStopped
               /\ \A s \in Jobs :
                     streams'[s].st # streams[s].st
                         => streams'[s].st \notin {"read", "got", "appended", "check"} ]_vars

(* C30: a stream task that ends by a protocol error leaves the inboxes of  *)
(* the other jobs as they are, and when its done-callback has run its loop *)
(* every other job of the awaiting set has the inbox it had, with the      *)
(* sentinel appended.                                                      *)
C30_ErrorKeepsOtherInboxes ==
    [][ \A s \in Jobs :
           /\ (~streams[s].failed /\ streams'[s].failed)
                 => \A e \in Inboxes \ {streams[s].cur.event_id} :
                       /\ e \in DOMAIN pending_messages_per_event'
                       /\ pending_messages_per_event'[e]
                              = pending_messages_per_event[e]
           /\ (/\ streams[s].failed
               /\ streams[s].st = "cb_loop"
               /\ streams'[s].st # "cb_loop")
                 => \A e \in pending_event_ids :
                       /\ e \in DOMAIN pending_messages_per_event
                       /\ e \in DOMAIN pending_messages_per_event'
                       /\ pending_messages_per_event'[e]
                              = Append(pending_messages_per_event[e], None) ]_vars

C33_RefreshReconnects ==
    /\ [][ (heartbeat._refresh_heartbeat /\ heartbeat'.lines = heartbeat.lines + 1)
               => /\ heartbeat'.pc = "connect"
                  /\ ~heartbeat'._refresh_heartbeat ]_vars
    /\ [][ (heartbeat.pc = "connect" /\ heartbeat'.pc = "open")
               => heartbeat'.session_hash = session_hash ]_vars
    /\ [](( /\ heartbeat.pc \in {"open", "listening"}
            /\ heartbeat.session_hash # session_hash )
              => heartbeat._refresh_heartbeat)
    /\ [][ heartbeat.pc = "exited"
               => /\ heartbeat'.pc = "exited"
                  /\ heartbeat'.connections = heartbeat.connections ]_vars

(* C33: after a reset_session the heartbeat has received a line, closed    *)
(* its connection and is listening on a second one, opened under the new   *)
(* session identity, with the request cleared.                             *)
C33_Witness ==
    /\ session_hash = 2
    /\ heartbeat.pc = "listening"
    /\ heartbeat.session_hash = 2
    /\ heartbeat.connections = 2
    /\ heartbeat.lines = 1
    /\ ~heartbeat._refresh_heartbeat

(* C32: no two threads are at the same time inside a check-then-act or     *)
(* iterate-while-modify sequence on the shared stream state.  On           *)
(* stream_open and streaming_future: a worker between its test of          *)
(* stream_open and the registration of close_stream, or in close_stream;   *)
(* a stream task between its test of the awaiting set and its write of     *)
(* stream_open, or in close_stream.  On the registry and the awaiting set: *)
(* a worker between the add of its id and the write of its inbox, or in    *)
(* the loop of close_stream; a stream task between the read of a message   *)
(* and its emptiness test, or in the loop of close_stream.                 *)
C32_OneThreadAtATime ==
    /\ Cardinality({j \in Jobs : pc[j] \in {"set_open", "check_future",
                                            "submit_stream", "add_cb", "cb_flag"}})
         + Cardinality({s \in Jobs : \/ streams[s].st = "check"
                                     \/ streams[s].st = "done" /\ streams[s].cbs > 0})
         <= 1
    /\ Cardinality({j \in Jobs : pc[j] \in {"reset_inbox", "cb_loop"}})
         + Cardinality({s \in Jobs : streams[s].st \in {"got", "appended",
                                                        "check", "cb_loop"}})
         <= 1

(* C34: under fair scheduling of the worker and of the stream task, a job  *)
(* whose submit POST succeeded and whose terminal message the app has sent *)
(* is eventually done: result() returns or raises.                         *)
C34_JobEventuallyDone ==
    \A j \in ObservedJobs :
        (server[j].posted /\ server[j].completed) ~> Done(j)

(* C35: under a protocol other than sse_v3, a stream task that stops       *)
(* reading at its emptiness check does so only when every job the app has  *)
(* given an event_id has had its terminal message read and delivered.      *)
C35_NoTeardownWhileWaiting ==
    [][ \A s \in Jobs :
           ( /\ protocol # "sse_v3"
             /\ streams[s].st = "check"
             /\ streams'[s].st = "exiting" )
               => \A j \in Jobs : server[j].posted => server[j].completed ]_vars

(* C36: the done-callback of a stream task appends no sentinel to the      *)
(* inbox of a job of which no message has been read yet and whose own      *)
(* send_data has opened the newest connection, one that is scheduled or    *)
(* running; and in no inbox does a sentinel precede a message of the job.  *)
C36_SentinelFromOwnConnection ==
    /\ [][ \A s \in Jobs :
              (streams[s].st = "cb_loop" /\ streams'[s].st # "cb_loop")
                  => \A e \in Inboxes \ {s} :
                        ( /\ streaming_future = e
                          /\ InFlight(e)
                          /\ server[e].sent = 0
                          /\ ~server[e].completed )
                            => pending_messages_per_event'[e]
                                   = pending_messages_per_event[e] ]_vars
    /\ [](\A e \in Inboxes :
             \A i, k \in 1 .. Len(pending_messages_per_event[e]) :
                (i < k /\ pending_messages_per_event[e][i] = None)
                    => pending_messages_per_event[e][k].event_id = 0)

(* C37: once a job's backing computation is done, however it ended, and    *)
(* the iteration has yielded every entry of the output list, the stop test *)
(* of __next__ is true: its next pass raises StopIteration.                *)
C37_IterationStops ==
    \A j \in ObservedJobs :
        ( /\ Done(j)
          /\ ~caller[j].stopped
          /\ caller[j].counter >= Len(helper[j].outputs) )
            => helper[j].latest_status = "FINISHED"

(* C38: the pool is never in a state where a stream task is queued and    *)
(* every thread of the pool is held by a job waiting for its messages, its *)
(* inbox empty.                                                            *)
C38_StreamGetsASlot ==
    ~ /\ \E s \in Jobs : streams[s].st = "queued"
      /\ Cardinality({j \in Jobs : /\ pc[j] = "consume"
                                   /\ j \in Inboxes
                                   /\ pending_messages_per_event[j] = << >>})
             = executor

(* C39: whenever a job that was submitted after a reset_session, under the *)
(* new session identity, waits for its messages and has an open stream     *)
(* connection to wait on, one of the open connections was opened with the  *)
(* session_hash the job was submitted with.                                *)
C39_StreamOfOwnSession ==
    \A j \in Jobs :
        ( /\ pc[j] = "consume"
          /\ ~server[j].completed
          /\ server[j].session_hash > 1
          /\ \E s \in Jobs : streams[s].st \in {"read", "got", "appended", "check"} )
            => \E s \in Jobs :
                  /\ streams[s].st \in {"read", "got", "appended", "check"}
                  /\ streams[s].session_hash = server[j].session_hash

====
